---------------------------- MODULE Spec2Model ----------------------------
(***************************************************************************)
(* Kademlia-style DHT of protocols/kademlia-dht: Node (routing table,      *)
(* greedy lookup, migration on join) and KademliaDHT (join, store,         *)
(* retrieve).  The model follows Node.ts lines 20-232 and KademliaDHT.ts   *)
(* lines 15-104 (the HashKey version of the code).                         *)
(*                                                                         *)
(* A node object is named by its raw label (key.id); there is one node     *)
(* object per label.  Data keys are raw labels too, hashed by the same     *)
(* function as the node ids.                                               *)
(***************************************************************************)
EXTENDS Integers, Sequences, FiniteSets, TLC

\* ------------------------------------------------------------------ bounds
HashBits   == 3        \* width of a hash value (256 in the program)
MaxLabel   == 4        \* node ids are the raw labels 1..MaxLabel
MaxMembers == 4        \* joinNetwork is offered while the membership is shorter

\* ------------------------------------------------------- program constants
K == 2

Labels   == 1..MaxLabel
\* The keys data is stored under: one that is a node's id (the tests store
\* under 'nodeB' and 'nodeC') and one that is no node's id (main.ts: 'key1').
DataKeys == {MaxLabel, MaxLabel + 1}
\* The values stored: the code never looks into a value, so two of them
\* are enough to tell one value from another.
Values   == {1, 2}

\* null / undefined: no node, no value
Null == 0

\* RangeError: Maximum call stack size exceeded
StackOverflow == "RangeError"

\* Error('No nodes in the network ...')
NoNodesError == "NoNodes"

\* ------------------------------------------------------------- identities
RECURSIVE Pow2(_)
Pow2(n) == IF n = 0 THEN 1 ELSE 2 * Pow2(n - 1)

HashValues == 0..(Pow2(HashBits) - 1)

\* Hash.keccak256: a fixed scrambling of the label into a HashBits-wide value
\* (the keccak permutation itself is a library; only its being a fixed
\* function of the raw string matters to the routing code).
KeccakTable ==
    [raw \in Labels \cup DataKeys |-> ((raw * raw) \div 4) % Pow2(HashBits)]

Keccak(raw) == KeccakTable[raw]

\* HashKey: id is the raw string, hash is keccak256(id).
HashKey(raw) == [id |-> raw, hash |-> Keccak(raw)]

\* Number of '1' digits of (a XOR b) written in base 2.
RECURSIVE OnesOfXor(_, _)
OnesOfXor(a, b) ==
    IF a = 0 /\ b = 0 THEN 0
    ELSE (IF (a % 2) # (b % 2) THEN 1 ELSE 0) + OnesOfXor(a \div 2, b \div 2)

\* OnesOfXor tabulated over the hash values, to evaluate it once.
OnesTable == [a \in HashValues |-> [b \in HashValues |-> OnesOfXor(a, b)]]

\* xorDistance without the XOR: the '1' digits of the first hash alone.
xorDistanceOfFirst(targetHashKey1, targetHashKey2) ==
    OnesTable[targetHashKey1.hash][0]

xorDistance(targetHashKey1, targetHashKey2) ==
    OnesTable[targetHashKey1.hash][targetHashKey2.hash]

\* ------------------------------------------------------------ Map helpers
\* Node.data is a JS Map: insertion-ordered, modelled as a sequence of
\* <<key, value>> pairs with distinct keys.
Range(seq) == {seq[i] : i \in 1..Len(seq)}

MapKeys(m) == {m[i][1] : i \in 1..Len(m)}

MapHas(m, k) == k \in MapKeys(m)

MapGet(m, k) ==
    IF MapHas(m, k) THEN m[CHOOSE i \in 1..Len(m) : m[i][1] = k][2] ELSE Null

\* MapSet forgetting the other entries of the Map.
MapReplace(m, k, v) == <<<<k, v>>>>

MapSet(m, k, v) ==
    IF MapHas(m, k)
    THEN [i \in 1..Len(m) |-> IF m[i][1] = k THEN <<k, v>> ELSE m[i]]
    ELSE Append(m, <<k, v>>)

MapDelete(m, k) == SelectSeq(m, LAMBDA e : e[1] # k)

\* ------------------------------------------------------------------ state
VARIABLES
    nodes,        \* KademliaDHT.nodes: sequence of node labels
    kBuckets,     \* Node.kBuckets of every node object
    data,         \* Node.data of every node object
    last          \* the last call made on the network and its outcome

vars == <<nodes, kBuckets, data, last>>


\* The shape of the state: KademliaDHT.nodes, Node.kBuckets, Node.data.
TypeOK ==
    /\ nodes \in Seq(Labels)
    /\ \A n \in Labels :
          /\ kBuckets[n] \in Seq(Labels)
          /\ \A i \in 1..Len(data[n]) :
                data[n][i][1] \in DataKeys /\ data[n][i][2] \in Values
          /\ \A i, j \in 1..Len(data[n]) : data[n][i][1] = data[n][j][1] => i = j

\* ------------------------------------------------------------------- Node
\* A network snapshot threaded through a call: kb and data of every node
\* object, and whether a RangeError is propagating out of the call.
Snapshot(kb, d, threw) == [kb |-> kb, data |-> d, threw |-> threw]

\* ReduceClosest with the comparison turned round: keeps the farther node.
RECURSIVE ReduceFarthest(_, _, _, _)
ReduceFarthest(bucket, i, acc, dataKey) ==
    IF i > Len(bucket) THEN acc
    ELSE LET aDistance == xorDistance(HashKey(acc), dataKey)
             bDistance == xorDistance(HashKey(bucket[i]), dataKey)
         IN  ReduceFarthest(bucket, i + 1,
                            IF aDistance > bDistance THEN acc ELSE bucket[i],
                            dataKey)

\* Node.getClosestKnownNode: Array.reduce over kBuckets with initial value
\* `this`; the accumulator is kept only when it is strictly closer.
RECURSIVE ReduceClosest(_, _, _, _)
ReduceClosest(bucket, i, acc, dataKey) ==
    IF i > Len(bucket) THEN acc
    ELSE LET aDistance == xorDistance(HashKey(acc), dataKey)
             bDistance == xorDistance(HashKey(bucket[i]), dataKey)
         IN  ReduceClosest(bucket, i + 1,
                           IF aDistance < bDistance THEN acc ELSE bucket[i],
                           dataKey)

\* getClosestKnownNode with the reduce started from the first entry instead
\* of `this`: the node itself is never a candidate.
getClosestKnownNeighbor(kb, self, dataKey) ==
    IF Len(kb[self]) = 0 THEN self
    ELSE ReduceClosest(kb[self], 2, kb[self][1], dataKey)

getClosestKnownNode(kb, self, dataKey) ==
    IF Len(kb[self]) = 0 THEN self
    ELSE ReduceClosest(kb[self], 1, self, dataKey)

\* Node.findClosestNode.  `path` is opts.path: every node entered is appended.
\* The call reads kBuckets only and changes nothing, so entering a node a
\* second time repeats the same descent for ever: the recursion has no base
\* case left and the engine ends it with a RangeError (call stack exceeded).
\* Descend without the recursion: the closest known neighbor is returned as
\* it is, whatever its own neighbors are.
DescendOneHop(kb, self, dataKey, path) ==
    LET entered          == Append(path, self)
        closestKnownNode == getClosestKnownNode(kb, self, dataKey)
    IN  IF self = closestKnownNode
        THEN [node |-> self, path |-> entered, overflow |-> FALSE]
        ELSE [node |-> closestKnownNode, path |-> Append(entered, closestKnownNode),
              overflow |-> FALSE]

\* Descend with the trace written newest first.
RECURSIVE DescendNewestFirst(_, _, _, _)
DescendNewestFirst(kb, self, dataKey, path) ==
    LET entered          == <<self>> \o path
        closestKnownNode == getClosestKnownNode(kb, self, dataKey)
    IN  IF self = closestKnownNode
        THEN [node |-> self, path |-> entered, overflow |-> FALSE]
        ELSE IF self \in Range(path)
             THEN [node |-> Null, path |-> entered, overflow |-> TRUE]
             ELSE DescendNewestFirst(kb, closestKnownNode, dataKey, entered)

RECURSIVE Descend(_, _, _, _)
Descend(kb, self, dataKey, path) ==
    LET entered          == Append(path, self)
        closestKnownNode == getClosestKnownNode(kb, self, dataKey)
    IN  IF self = closestKnownNode
        THEN [node |-> self, path |-> entered, overflow |-> FALSE]
        ELSE IF self \in Range(path)
             THEN [node |-> Null, path |-> entered, overflow |-> TRUE]
             ELSE Descend(kb, closestKnownNode, dataKey, entered)

findClosestNode(kb, self, dataKey) == Descend(kb, self, dataKey, <<>>)

\* SortByDistance without the sort: the list stays in insertion order.
InsertionOrder(self, seq) == seq

\* Array.sort with the comparator d(this, a) - d(this, b); the sort is stable.
RECURSIVE InsertByDistance(_, _, _)
InsertByDistance(self, sorted, x) ==
    IF sorted = <<>> THEN <<x>>
    ELSE LET lastOne == sorted[Len(sorted)]
         IN  IF xorDistance(HashKey(self), HashKey(lastOne))
                  - xorDistance(HashKey(self), HashKey(x)) <= 0
             THEN Append(sorted, x)
             ELSE Append(InsertByDistance(self, SubSeq(sorted, 1, Len(sorted) - 1), x),
                         lastOne)

RECURSIVE SortFrom(_, _, _, _)
SortFrom(self, seq, i, acc) ==
    IF i > Len(seq) THEN acc
    ELSE SortFrom(self, seq, i + 1, InsertByDistance(self, acc, seq[i]))

SortByDistance(self, seq) == SortFrom(self, seq, 1, <<>>)

\* Existing without the lookup: a known node is taken for a new one.
NeverExisting(bucket, node) == FALSE

\* kBuckets.find(n => n.key.id === node.key.id)
Existing(bucket, node) == \E i \in 1..Len(bucket) : bucket[i] = node

\* IsSelf without the comparison: a node takes itself for another node.
NeverSelf(self, node) == FALSE

\* this.key.id === node.key.id
IsSelf(self, node) == self = node

\* DropFarthest without the pop.
KeepAll(bucket) == bucket

\* DropFarthest dropping the head of the list: the nearest entry goes.
DropNearest(bucket) ==
    IF Len(bucket) > K THEN Tail(bucket) ELSE bucket

\* if (kBuckets.length > K) kBuckets.pop()
DropFarthest(bucket) ==
    IF Len(bucket) > K THEN SubSeq(bucket, 1, Len(bucket) - 1) ELSE bucket

\* MigrateEntry without the delete: the entry is copied, not moved.
CopyEntry(s, self, newNode, entry) ==
    LET newClosest == findClosestNode(s.kb, self, HashKey(entry[1]))
    IN  IF newClosest.overflow THEN [s EXCEPT !.threw = TRUE]
        ELSE IF newClosest.node = newNode
             THEN [s EXCEPT !.data[newNode] = MapSet(@, entry[1], entry[2])]
             ELSE s

\* One iteration of the loop of Node.transferData, for the entry <<key, value>>.
MigrateEntry(s, self, newNode, entry) ==
    LET newClosest == findClosestNode(s.kb, self, HashKey(entry[1]))
    IN  IF newClosest.overflow THEN [s EXCEPT !.threw = TRUE]
        ELSE IF newClosest.node = newNode
             THEN [s EXCEPT !.data[newNode] = MapSet(@, entry[1], entry[2]),
                            !.data[self]    = MapDelete(@, entry[1])]
             ELSE s

\* Node.transferData: the entries of this.data in insertion order; an entry
\* is deleted only while it is the current one, so the order is the order on
\* entry to the loop.  A RangeError ends the loop where it is raised.
RECURSIVE TransferFrom(_, _, _, _, _)
TransferFrom(s, self, newNode, entries, i) ==
    IF i > Len(entries) \/ s.threw THEN s
    ELSE TransferFrom(MigrateEntry(s, self, newNode, entries[i]),
                      self, newNode, entries, i + 1)

transferData(s, self, newNode) == TransferFrom(s, self, newNode, s.data[self], 1)

\* Node.addToRoutingTable
addToRoutingTable(s, self, node) ==
    IF s.threw THEN s
    ELSE IF IsSelf(self, node) THEN s
    ELSE IF Existing(s.kb[self], node) THEN s
    ELSE LET pushed == Append(s.kb[self], node)
             sorted == SortByDistance(self, pushed)
             kept   == DropFarthest(sorted)
         IN  transferData([s EXCEPT !.kb[self] = kept], self, node)

\* Node.getData: data.get(id) ?? null
getData(d, self, dataKey) == MapGet(d[self], dataKey.id)

\* ------------------------------------------------------------ KademliaDHT
\* The forEach of joinNetwork over this.nodes (the new node included).
RECURSIVE LearnFrom(_, _, _, _)
LearnFrom(s, members, newNode, i) ==
    IF i > Len(members) \/ s.threw THEN s
    ELSE LearnFrom(addToRoutingTable(addToRoutingTable(s, members[i], newNode),
                                     newNode, members[i]),
                   members, newNode, i + 1)

\* What the caller sees of a call: the method, how it ended ("ok" or the
\* error thrown), the key and value arguments of storeData and retrieveData,
\* and what retrieveData returned.  (The node joinNetwork was given is the
\* last element of nodes.)
Outcome(op, status, arg, val, ret) ==
    [op |-> op, status |-> status, arg |-> arg, val |-> val, ret |-> ret]

Init ==
    /\ nodes = <<>>
    /\ kBuckets = [n \in Labels |-> <<>>]
    /\ data = [n \in Labels |-> <<>>]
    /\ last = Outcome("new", "ok", Null, Null, Null)

\* joinNetwork with the membership replaced, not extended.
joinNetworkAlone(newNode) ==
    /\ Len(nodes) < MaxMembers
    /\ nodes' = <<newNode>>
    /\ LET s == IF Len(nodes) = 0
                THEN Snapshot(kBuckets, data, FALSE)
                ELSE LearnFrom(Snapshot(kBuckets, data, FALSE), nodes', newNode, 1)
       IN  /\ kBuckets' = s.kb
           /\ data' = s.data
           /\ last' = Outcome("join", IF s.threw THEN StackOverflow ELSE "ok",
                              Null, Null, Null)

\* joinNetwork with the push placed after the forEach: a join that throws
\* leaves the new node in neighbor lists without making it a member.
joinNetworkPushLast(newNode) ==
    /\ Len(nodes) < MaxMembers
    /\ LET s == IF Len(nodes) = 0
                THEN Snapshot(kBuckets, data, FALSE)
                ELSE LearnFrom(Snapshot(kBuckets, data, FALSE), nodes, newNode, 1)
       IN  /\ nodes' = IF s.threw THEN nodes ELSE Append(nodes, newNode)
           /\ kBuckets' = s.kb
           /\ data' = s.data
           /\ last' = Outcome("join", IF s.threw THEN StackOverflow ELSE "ok",
                              Null, Null, Null)

\* KademliaDHT.joinNetwork(newNode)
joinNetwork(newNode) ==
    /\ Len(nodes) < MaxMembers
    /\ nodes' = Append(nodes, newNode)
    /\ LET s == IF Len(nodes) = 0
                THEN Snapshot(kBuckets, data, FALSE)
                ELSE LearnFrom(Snapshot(kBuckets, data, FALSE), nodes', newNode, 1)
       IN  /\ kBuckets' = s.kb
           /\ data' = s.data
           /\ last' = Outcome("join", IF s.threw THEN StackOverflow ELSE "ok",
                              Null, Null, Null)

\* storeDataEmpty as an earlier draft had it: log the error and return.
storeDataEmptyLogged(dataKey, value) ==
    /\ Len(nodes) = 0
    /\ last' = Outcome("store", "ok", dataKey, value, Null)
    /\ UNCHANGED <<nodes, kBuckets, data>>

\* KademliaDHT.storeData on an empty network: throws.
storeDataEmpty(dataKey, value) ==
    /\ Len(nodes) = 0
    /\ last' = Outcome("store", NoNodesError, dataKey, value, Null)
    /\ UNCHANGED <<nodes, kBuckets, data>>

\* KademliaDHT.storeData with getRandomNode returning nodes[randomIndex].
storeDataAt(dataKey, value, randomIndex) ==
    /\ Len(nodes) # 0
    /\ LET randomNode  == nodes[randomIndex]
           closestNode == findClosestNode(kBuckets, randomNode, HashKey(dataKey))
       IN  IF closestNode.overflow
           THEN /\ last' = Outcome("store", StackOverflow, dataKey, value, Null)
                /\ UNCHANGED data
           ELSE /\ data' = [data EXCEPT ![closestNode.node] = MapSet(@, dataKey, value)]
                /\ last' = Outcome("store", "ok", dataKey, value, Null)
    /\ UNCHANGED <<nodes, kBuckets>>

storeData ==
    \E dataKey \in DataKeys, value \in Values :
        \/ storeDataEmpty(dataKey, value)
        \/ \E randomIndex \in 1..Len(nodes) : storeDataAt(dataKey, value, randomIndex)

\* KademliaDHT.retrieveData on an empty network: throws.
retrieveDataEmpty(dataKey) ==
    /\ Len(nodes) = 0
    /\ last' = Outcome("retrieve", NoNodesError, dataKey, Null, Null)
    /\ UNCHANGED <<nodes, kBuckets, data>>

\* What retrieveData gives the caller when getRandomNode returns randomNode.
retrieveFrom(kb, d, randomNode, dataKey) ==
    LET closestNode == findClosestNode(kb, randomNode, HashKey(dataKey))
    IN  IF closestNode.overflow
        THEN Outcome("retrieve", StackOverflow, dataKey, Null, Null)
        ELSE Outcome("retrieve", "ok", dataKey, Null,
                     getData(d, closestNode.node, HashKey(dataKey)))

\* retrieveDataAt taking the entry out of the store it reads.
retrieveDataAtTaking(dataKey, randomIndex) ==
    /\ Len(nodes) # 0
    /\ last' = retrieveFrom(kBuckets, data, nodes[randomIndex], dataKey)
    /\ LET closestNode == findClosestNode(kBuckets, nodes[randomIndex], HashKey(dataKey))
       IN  data' = IF closestNode.overflow THEN data
                   ELSE [data EXCEPT ![closestNode.node] = MapDelete(@, dataKey)]
    /\ UNCHANGED <<nodes, kBuckets>>

retrieveDataAt(dataKey, randomIndex) ==
    /\ Len(nodes) # 0
    /\ last' = retrieveFrom(kBuckets, data, nodes[randomIndex], dataKey)
    /\ UNCHANGED <<nodes, kBuckets, data>>

retrieveData ==
    \E dataKey \in DataKeys :
        \/ retrieveDataEmpty(dataKey)
        \/ \E randomIndex \in 1..Len(nodes) : retrieveDataAt(dataKey, randomIndex)

Next ==
    \/ \E newNode \in Labels : joinNetwork(newNode)
    \/ storeData
    \/ retrieveData

Spec == Init /\ [][Next]_vars

\* Node.xorDistance called on any two identities: any hash value of the
\* width under either of two raw ids (the function reads the hash only).
Identities == [id : DataKeys, hash : HashValues]

callXorDistance(targetHashKey1, targetHashKey2) ==
    /\ last' = Outcome("xorDistance", "ok", targetHashKey1, targetHashKey2,
                       xorDistance(targetHashKey1, targetHashKey2))
    /\ UNCHANGED <<nodes, kBuckets, data>>

NextDistance == \E a \in Identities, b \in Identities : callXorDistance(a, b)

SpecDistance == Init /\ [][NextDistance]_vars

\* The network under joinNetwork calls alone.
NextJoins == \E newNode \in Labels : joinNetwork(newNode)

SpecJoins == Init /\ [][NextJoins]_vars


\* ======================================================================
\* Properties
\* ======================================================================
Dist(a, b) == xorDistance(HashKey(a), HashKey(b))

Member(n) == n \in Range(nodes)

Sorted(self, bucket) ==
    \A i, j \in 1..Len(bucket) : i < j => Dist(self, bucket[i]) <= Dist(self, bucket[j])

\* C1: every joinNetwork, storeData and retrieveData call on a non-empty
\* network completes: no call ends in the call-stack RangeError of a lookup
\* that does not terminate.
C1_EveryCallCompletes == last.status # StackOverflow

\* retrieveData(k) gives v to the caller from every entry point of ns.
RetrievableAs(ns, kb, d, k, v) ==
    \A i \in 1..Len(ns) :
        retrieveFrom(kb, d, ns[i], k) = Outcome("retrieve", "ok", k, Null, v)

\* C2: once storeData(k, v) has completed on a non-empty network, and until
\* the next join, retrieveData(k) returns v whichever member getRandomNode
\* picks as its entry point (the store's entry point being any member too).
C2_StoreRetrieveRoundTrip ==
    (last.op = "store" /\ last.status = "ok")
    => RetrievableAs(nodes, kBuckets, data, last.arg, last.val)

\* C3: retrievability survives joins: when retrieveData(k) returns the
\* stored value v from every entry point before a further node joins, then
\* once the join has returned it returns v from every entry point still.
C3_RetrievableAfterJoins ==
    [][\A newNode \in Labels, k \in DataKeys, v \in Values :
          (Len(nodes) > 0 /\ RetrievableAs(nodes, kBuckets, data, k, v)
              /\ nodes' = Append(nodes, newNode) /\ last'.status = "ok")
          => RetrievableAs(nodes', kBuckets', data', k, v)]_vars

\* The join of C into the two-node network <<A, B>> whose closer node H
\* holds key k, C being closer to k than H.
MigrationCase(C, H, k) ==
    /\ Len(nodes) = 2 /\ nodes[1] # nodes[2]
    /\ H \in Range(nodes) /\ C \notin Range(nodes)
    /\ \E O \in Range(nodes) \ {H} :
          /\ MapHas(data[H], k) /\ ~MapHas(data[O], k)
          /\ Dist(H, k) < Dist(O, k)
    /\ Dist(C, k) < Dist(H, k)

\* C4: when such a join returns, the value of k is in C's store, not in the
\* prior holder's, and retrieveData(k) returns it from every entry point.
C4_MigrationOnJoin ==
    [][\A C \in Labels, H \in Labels, k \in DataKeys :
          (MigrationCase(C, H, k)
              /\ nodes' = Append(nodes, C) /\ last'.op = "join" /\ last'.status = "ok")
          => /\ MapGet(data'[C], k) = MapGet(data[H], k)
             /\ ~MapHas(data'[H], k)
             /\ \A i \in 1..Len(nodes') :
                   retrieveFrom(kBuckets', data', nodes'[i], k)
                       = Outcome("retrieve", "ok", k, Null, MapGet(data[H], k))]_vars

C4_Witness ==
    /\ Len(nodes) = 3 /\ Cardinality(Range(nodes)) = 3
    /\ last.op = "join" /\ last.status = "ok"
    /\ \E k \in DataKeys :
          /\ MapHas(data[nodes[3]], k)
          /\ ~MapHas(data[nodes[1]], k) /\ ~MapHas(data[nodes[2]], k)
          /\ Dist(nodes[3], k) < Dist(nodes[1], k)
          /\ Dist(nodes[3], k) < Dist(nodes[2], k)

\* C5: in a two-node network where B is closer to the key than A, a completed
\* storeData(key, v) leaves v in B's store and A's store without the key.
C5_TwoNodePlacement ==
    (last.op = "store" /\ last.status = "ok"
        /\ Len(nodes) = 2 /\ nodes[1] # nodes[2])
    => \A A \in Range(nodes), B \in Range(nodes) :
          Dist(B, last.arg) < Dist(A, last.arg)
          => /\ MapGet(data[B], last.arg) = last.val
             /\ ~MapHas(data[A], last.arg)

C5_Witness ==
    /\ last.op = "store" /\ last.status = "ok"
    /\ Len(nodes) = 2 /\ nodes[1] # nodes[2]
    /\ Dist(nodes[2], last.arg) < Dist(nodes[1], last.arg)
    /\ MapGet(data[nodes[2]], last.arg) = last.val

\* C6: every node's neighbor list has at most K entries.
C6_BoundedTable == \A n \in Labels : Len(kBuckets[n]) <= K

\* a node that has met more than K other members and keeps K of them
C6_Witness ==
    \E n \in Labels :
        /\ Member(n)
        /\ Cardinality(Range(nodes) \ {n}) > K
        /\ Len(kBuckets[n]) = K

\* C7: no neighbor list holds its owner, and none holds an identity twice.
C7_NoSelfNoDuplicate ==
    \A n \in Labels :
        /\ n \notin Range(kBuckets[n])
        /\ \A i, j \in 1..Len(kBuckets[n]) :
              kBuckets[n][i] = kBuckets[n][j] => i = j

\* a member joined a second time, its neighbors already knowing it
C7_Witness ==
    \E i, j \in 1..Len(nodes) :
        /\ i < j /\ nodes[i] = nodes[j]
        /\ \E n \in Labels : nodes[i] \in Range(kBuckets[n])
        /\ kBuckets[nodes[i]] # <<>>

\* C8: every neighbor list is in non-decreasing order of distance from its owner.
C8_SortedTable == \A n \in Labels : Sorted(n, kBuckets[n])

\* a list whose nearer entry joined after its farther entry
C8_Witness ==
    \E n \in Labels :
        /\ Len(kBuckets[n]) = 2
        /\ Dist(n, kBuckets[n][1]) < Dist(n, kBuckets[n][2])
        /\ \E i, j \in 1..Len(nodes) :
              /\ i < j
              /\ nodes[i] = kBuckets[n][2] /\ nodes[j] = kBuckets[n][1]
              /\ \A h \in 1..Len(nodes) : nodes[h] = kBuckets[n][1] => h >= j

\* C9: joining a member a second time duplicates it neither in the
\* membership nor in any neighbor list.
C9_IdempotentJoin ==
    /\ \A i, j \in 1..Len(nodes) : nodes[i] = nodes[j] => i = j
    /\ \A n \in Labels : \A i, j \in 1..Len(kBuckets[n]) :
          kBuckets[n][i] = kBuckets[n][j] => i = j

EmptyCall == Len(nodes) = 0 /\ last'.op \in {"store", "retrieve"}

\* C10 as stated: on an empty network storeData and retrieveData return to
\* the caller (retrieveData returning absent) without throwing, and change
\* no state.
C10_EmptyNetworkReported ==
    [][EmptyCall => /\ last'.status = "ok" /\ last'.ret = Null
                    /\ UNCHANGED <<nodes, kBuckets, data>>]_vars

\* C10 amended: on an empty network storeData and retrieveData throw the
\* no-nodes Error to the caller, and change no state.
C10_EmptyNetworkThrows ==
    [][EmptyCall => /\ last'.status = NoNodesError
                    /\ UNCHANGED <<nodes, kBuckets, data>>]_vars

C10_Witness ==
    /\ Len(nodes) = 0 /\ last.op \in {"store", "retrieve"}
    /\ last.status = NoNodesError

\* findClosestNode(target k) called on node m in the current state.
Lookup(m, k) == findClosestNode(kBuckets, m, HashKey(k))

NoRepeat(path) == \A i, j \in 1..Len(path) : path[i] = path[j] => i = j

\* C11: a findClosestNode call started at a member enters no node twice and
\* returns a node; the trace it appends has at most n + 1 elements, n being
\* the number of members.
C11_HopBound ==
    \A m \in Range(nodes), k \in DataKeys :
        /\ ~Lookup(m, k).overflow
        /\ Lookup(m, k).node # Null
        /\ NoRepeat(Lookup(m, k).path)
        /\ Len(Lookup(m, k).path) <= Cardinality(Range(nodes)) + 1

\* C12: addToRoutingTable(other) called on a node whose own identity other
\* has, or whose neighbor list holds other already, throws nothing and
\* leaves every neighbor list and every store as it was.
C12_SilentNoOp ==
    \A self \in Labels, other \in Labels :
        (self = other \/ other \in Range(kBuckets[self]))
        => addToRoutingTable(Snapshot(kBuckets, data, FALSE), self, other)
               = Snapshot(kBuckets, data, FALSE)

\* a member has been joined again: its neighbors held it already, it was
\* handed itself, and a store that could have moved is not empty
C12_Witness ==
    /\ last.op = "join" /\ last.status = "ok"
    /\ Len(nodes) >= 3
    /\ \E i \in 1..(Len(nodes) - 1) : nodes[i] = nodes[Len(nodes)]
    /\ \E n \in Range(nodes) : nodes[Len(nodes)] \in Range(kBuckets[n])
    /\ \E n \in Range(nodes) : data[n] # <<>>

\* C13: the distance of a to b is the distance of b to a, it is zero when
\* a and b have the same identity, and it is a non-negative integer.
C13_DistanceSymmetric ==
    last.op = "xorDistance"
    => /\ last.ret = xorDistance(last.val, last.arg)
       /\ last.arg.hash = last.val.hash => last.ret = 0
       /\ xorDistance(last.arg, last.arg) = 0
       /\ last.ret \in Nat

\* the distance of two identities that differ in more than one bit
C13_Witness ==
    /\ last.op = "xorDistance"
    /\ last.arg.id # last.val.id
    /\ last.ret > 1

\* C14: no step removes a member: the membership after a step is the
\* membership before it, followed by the nodes that joined.
C14_MembershipGrows ==
    [][/\ Len(nodes') >= Len(nodes)
       /\ SubSeq(nodes', 1, Len(nodes)) = nodes]_vars

\* joins, a store and a retrieve have acted and the members are all there
C14_Witness ==
    /\ Len(nodes) >= 3
    /\ last.op = "retrieve" /\ last.status = "ok" /\ last.ret # Null

\* C15: a node that is at least as close to the target as every entry of its
\* neighbor list (equal distance included) returns itself from
\* findClosestNode, entering no neighbor.
C15_LookupStopRule ==
    \A m \in Range(nodes), k \in DataKeys :
        (\A e \in Range(kBuckets[m]) : Dist(m, k) <= Dist(e, k))
        => /\ getClosestKnownNode(kBuckets, m, HashKey(k)) = m
           /\ Lookup(m, k).node = m
           /\ Lookup(m, k).path = <<m>>

\* No entry of n's neighbor list is strictly closer to k than n (n is Null
\* when the lookup returned no node).
LocalOptimum(n, k) ==
    n # Null => \A e \in Range(kBuckets[n]) : ~(Dist(e, k) < Dist(n, k))

\* C16: the node a findClosestNode call returns is a local optimum: no entry
\* of its own neighbor list is strictly closer to the target than it is.
C16_LocalOptimum ==
    \A m \in Range(nodes), k \in DataKeys :
        LocalOptimum(Lookup(m, k).node, k)

\* a lookup that hopped and returned a node with a full neighbor list
C16_Witness ==
    \E m \in Range(nodes), k \in DataKeys :
        /\ ~Lookup(m, k).overflow
        /\ Len(Lookup(m, k).path) >= 2
        /\ Len(kBuckets[Lookup(m, k).node]) = K

\* The neighbor list of n holds the members nearest to n.
NearestKept(n) ==
    /\ Len(kBuckets[n]) =
          (IF Cardinality(Range(nodes)) - 1 < K
           THEN Cardinality(Range(nodes)) - 1 ELSE K)
    /\ Range(kBuckets[n]) \subseteq Range(nodes) \ {n}
    /\ \A o \in Range(nodes) \ ({n} \cup Range(kBuckets[n])) :
          \A e \in Range(kBuckets[n]) : ~(Dist(n, o) < Dist(n, e))

TraceOrdered(m, k) ==
    LET r == Lookup(m, k)
    IN  /\ r.path[1] = m
        /\ ~r.overflow => r.path[Len(r.path)] = r.node
        /\ \A i \in 2..Len(r.path) : r.path[i] \in Range(kBuckets[r.path[i - 1]])
        /\ \A i \in 1..Len(r.path) :
              Descend(kBuckets, r.path[i], HashKey(k), SubSeq(r.path, 1, i - 1)).path
                  = r.path

\* C18: the trace handed to a lookup records the nodes visited in visit
\* order: first the entry node, last the node returned, each element an
\* entry of its predecessor's neighbor list, nothing removed or reordered.
C18_TraceOrdering ==
    \A m \in Range(nodes), k \in DataKeys : TraceOrdered(m, k)

\* a lookup that returned after visiting three nodes
C18_Witness ==
    \E m \in Range(nodes), k \in DataKeys :
        /\ ~Lookup(m, k).overflow
        /\ Len(Lookup(m, k).path) = 3
        /\ NoRepeat(Lookup(m, k).path)

\* C19: a completed storeData(key, v) on a non-empty network leaves v under
\* key in the store of the node the lookup from some member returns, and
\* changes nothing else: not that node's other keys, not another node's
\* store, not a neighbor list, not the membership.
C19_StoreFrame ==
    [][(last'.op = "store" /\ last'.status = "ok")
       => /\ nodes' = nodes
          /\ kBuckets' = kBuckets
          /\ \E n \in Range(nodes) :
                /\ \A o \in Labels \ {n} : data'[o] = data[o]
                /\ MapGet(data'[n], last'.arg) = last'.val
                /\ MapKeys(data'[n]) = MapKeys(data[n]) \cup {last'.arg}
                /\ \A k \in DataKeys \ {last'.arg} :
                      MapGet(data'[n], k) = MapGet(data[n], k)
                /\ \E m \in Range(nodes) : Lookup(m, last'.arg).node = n]_vars

\* a store has replaced the value of a key on a node that holds the other
\* key too, while another node holds data as well
C19_Witness ==
    /\ last.op = "store" /\ last.status = "ok"
    /\ \E n \in Range(nodes) :
          /\ MapGet(data[n], last.arg) = last.val
          /\ data[n][1][1] = last.arg
          /\ \E k \in DataKeys \ {last.arg} :
                MapHas(data[n], k) /\ MapGet(data[n], k) # last.val
          /\ \E m \in Range(nodes) \ {n} : data[m] # <<>>

\* The nodes whose store holds key k.
Holders(d, k) == {n \in Labels : MapHas(d[n], k)}

\* C20: over a join every key held before is held after, each of its
\* holders after the join has the value of one of the holders before, and
\* the number of holders has not grown.
C20_MigrationMoves ==
    [][last'.op = "join"
       => \A k \in DataKeys :
             /\ Holders(data, k) # {} => Holders(data', k) # {}
             /\ \A n \in Holders(data', k) :
                   \E h \in Holders(data, k) :
                       MapGet(data'[n], k) = MapGet(data[h], k)
             /\ Cardinality(Holders(data', k)) <= Cardinality(Holders(data, k))]_vars

\* a join has moved an entry to the joining node, which holds the value its
\* only prior holder had, while the other key stayed where it was
C20_Witness ==
    /\ last.op = "join" /\ last.status = "ok" /\ Len(nodes) >= 3
    /\ \E k \in DataKeys, j \in DataKeys :
          /\ j # k
          /\ Holders(data, k) = {nodes[Len(nodes)]}
          /\ \A i \in 1..(Len(nodes) - 1) : nodes[i] # nodes[Len(nodes)]
          /\ Holders(data, j) # {} /\ nodes[Len(nodes)] \notin Holders(data, j)

\* C21: over a join data flows into the joining node only: no member other
\* than the joining node holds, after the join, a key it did not hold before.
C21_FlowsToJoiner ==
    [][last'.op = "join"
       => \A n \in Range(nodes) \ {nodes'[Len(nodes')]} :
             MapKeys(data'[n]) \subseteq MapKeys(data[n])]_vars

\* C22: retrieveData changes no network state: the membership, every
\* neighbor list and every store are after the call what they were before
\* it, whether it returns a value, returns null or throws.
C22_RetrieveReadOnly ==
    [][last'.op = "retrieve" => UNCHANGED <<nodes, kBuckets, data>>]_vars

\* a retrieve that hopped to another node and came back with null while a
\* third node holds the key
C22_Witness ==
    /\ last.op = "retrieve" /\ last.status = "ok" /\ last.ret = Null
    /\ Holders(data, last.arg) # {}
    /\ \E m \in Range(nodes) :
          /\ ~Lookup(m, last.arg).overflow
          /\ Len(Lookup(m, last.arg).path) >= 2
          /\ Lookup(m, last.arg).node \notin Holders(data, last.arg)

NonIncreasing(path, k) ==
    \A i \in 1..(Len(path) - 1) : Dist(path[i + 1], k) <= Dist(path[i], k)

StepsDown(path, k) ==
    \E i \in 1..(Len(path) - 1) : Dist(path[i + 1], k) < Dist(path[i], k)

StepsLevel(path, k) ==
    \E i \in 1..(Len(path) - 1) : Dist(path[i + 1], k) = Dist(path[i], k)

\* C23: along the nodes one findClosestNode call visits, the distance to the
\* target never increases from one visited node to the next (a call that
\* never returns included: its visits go round a cycle of equal distances).
C23_MonotoneDescent ==
    \A m \in Range(nodes), k \in DataKeys : NonIncreasing(Lookup(m, k).path, k)

\* a lookup that returned after one hop to a strictly closer node and one
\* hop to a node at the same distance
C23_Witness ==
    \E m \in Range(nodes), k \in DataKeys :
        /\ ~Lookup(m, k).overflow
        /\ StepsDown(Lookup(m, k).path, k)
        /\ StepsLevel(Lookup(m, k).path, k)

ReturnsMember(r) == ~r.overflow => Member(r.node)

\* C24: every entry of every member's neighbor list is a member, every
\* lookup started at a member that returns returns a member, and only
\* members hold stored data.
C24_RoutingClosure ==
    /\ \A n \in Range(nodes) : Range(kBuckets[n]) \subseteq Range(nodes)
    /\ \A m \in Range(nodes), k \in DataKeys : ReturnsMember(Lookup(m, k))
    /\ \A n \in Labels : MapKeys(data[n]) # {} => Member(n)

\* some node never joined, a member has a full neighbor list, a member holds
\* data, and a lookup hopped before returning
C24_Witness ==
    /\ Labels \ Range(nodes) # {}
    /\ \E n \in Range(nodes) : Len(kBuckets[n]) = K
    /\ \E n \in Range(nodes) : MapKeys(data[n]) # {}
    /\ \E m \in Range(nodes), k \in DataKeys :
          ~Lookup(m, k).overflow /\ Lookup(m, k).node # m

=============================================================================
